---- MODULE Spec2Model ----
(***************************************************************************)
(* skeldir: the pasted-tree parser (parseTree / getDepth), the hierarchy   *)
(* materializer (createFromStructureWithContent / createCustomWithContent) *)
(* and the command's action around them, from src/bin/index.js.            *)
(*                                                                         *)
(* A line is a sequence of characters.  A character is a string; the box   *)
(* drawing glyphs are written "VB" (vertical bar), "TEE", "ELB" (elbow)    *)
(* and "HB" (horizontal bar), the tab is "TAB".  "/" is the POSIX path     *)
(* separator and "." the dot; every other string is an ordinary name       *)
(* character (a token such as "lib" stands for a run of them).  Names that *)
(* JavaScript objects treat specially ("__proto__", integer-like keys) are *)
(* outside the character set of the inputs.                                *)
(***************************************************************************)
EXTENDS Integers, Sequences, FiniteSets, TLC

VARIABLES version, opt, projectName, stdin, rd, lines, pc, idx, heap, stack,
          ins, walk, fs, attempts, out

vars == <<version, opt, projectName, stdin, rd, lines, pc, idx, heap, stack,
          ins, walk, fs, attempts, out>>

\* ------------------------------------------------------------------ bounds
MaxLines == 3
MaxLead == 13

\* -------------------------------------------------------------- characters
treeChars == {" ", "VB", "TEE", "ELB", "HB"}
WhiteSpace == {" ", "TAB"}
StripClass == {"TEE", "ELB", "VB", "HB"} \cup WhiteSpace
NameChars == {"a", "b", "p", "cwd", "lib", "core", "models", "providers",
              "services", "themes.dart", "utils.dart", "main.dart",
              "user_model.dart", "data_model.dart", "theme_provider.dart",
              "data_provider.dart", "user_provider.dart", "api_service.dart",
              "storage_service.dart", "notification_service.dart"}

\* ------------------------------------------------------------ String.trim
RECURSIVE TrimStart(_)
TrimStart(s) ==
  IF Len(s) > 0 /\ s[1] \in WhiteSpace THEN TrimStart(Tail(s)) ELSE s

RECURSIVE TrimEnd(_)
TrimEnd(s) ==
  IF Len(s) > 0 /\ s[Len(s)] \in WhiteSpace
  THEN TrimEnd(SubSeq(s, 1, Len(s) - 1)) ELSE s

Trim(s) == TrimEnd(TrimStart(s))

\* trimmed.replace(/^[glyphs\s]+/, "")
RECURSIVE Clean(_)
Clean(s) ==
  IF Len(s) > 0 /\ s[1] \in StripClass THEN Clean(Tail(s)) ELSE s

EndsWithSlash(s) == Len(s) > 0 /\ s[Len(s)] = "/"

\* ---------------------------------------------------------------- getDepth
\* i is firstCharIndex (0-based): the scan of the raw line.
RECURSIVE ScanLead(_, _)
ScanLead(line, i) ==
  IF i < Len(line) /\ line[i + 1] \in treeChars
  THEN ScanLead(line, i + 1) ELSE i

\* getDepth rounding up
GetDepthCeil(line) == (ScanLead(line, 0) + 3) \div 4

GetDepth(line) == ScanLead(line, 0) \div 4

\* --------------------------------------------------------------- parseTree
\* The heap is the sequence of the objects parseTree allocates; node 1 is
\* root.  An object is the sequence of its own keys in insertion order; an
\* entry is [name, kind, ref], kind "null" for an empty file (ref 0) and
\* "object" for a folder (ref its node).
Root == 1
InitHeap == << <<>> >>
\* the root frame at depth 0
RootDepthZero == << [depth |-> 0, node |-> Root] >>

InitStack == << [depth |-> -1, node |-> Root] >>

IsBlank(line) == Trim(line) = <<>>
IsFolder(line) == EndsWithSlash(Clean(Trim(line)))
NameOf(line) ==
  LET clean == Clean(Trim(line))
  IN IF EndsWithSlash(clean) THEN SubSeq(clean, 1, Len(clean) - 1) ELSE clean

\* the pop loop with < for <=
RECURSIVE PopFramesStrict(_, _)
PopFramesStrict(stk, depth) ==
  IF Len(stk) > 0 /\ depth < stk[Len(stk)].depth
  THEN PopFramesStrict(SubSeq(stk, 1, Len(stk) - 1), depth) ELSE stk

\* the pop as an if: at most one frame is popped
PopFramesOnce(stk, depth) ==
  IF Len(stk) > 0 /\ depth <= stk[Len(stk)].depth
  THEN SubSeq(stk, 1, Len(stk) - 1) ELSE stk

\* while (stack.length && depth <= stack[stack.length - 1].depth) stack.pop()
RECURSIVE PopFrames(_, _)
PopFrames(stk, depth) ==
  IF Len(stk) > 0 /\ depth <= stk[Len(stk)].depth
  THEN PopFrames(SubSeq(stk, 1, Len(stk) - 1), depth) ELSE stk

HasKey(obj, name) == \E i \in 1..Len(obj) : obj[i].name = name
KeyIndex(obj, name) == CHOOSE i \in 1..Len(obj) : obj[i].name = name

\* an assignment that leaves an existing key as it is
SetKeyKeepFirst(obj, name, kind, ref) ==
  IF HasKey(obj, name) THEN obj
  ELSE Append(obj, [name |-> name, kind |-> kind, ref |-> ref])

\* parent[name] = value: an existing key keeps its place, a new one is last.
SetKey(obj, name, kind, ref) ==
  IF HasKey(obj, name)
  THEN [obj EXCEPT ![KeyIndex(obj, name)] =
          [name |-> name, kind |-> kind, ref |-> ref]]
  ELSE Append(obj, [name |-> name, kind |-> kind, ref |-> ref])

\* the iteration without the skip of blank lines
ParseLineNoSkip(st, line) ==
  LET depth == GetDepth(line)
      name == NameOf(line)
      stk == PopFrames(st.stack, depth)
  IN IF Len(stk) = 0 THEN [st EXCEPT !.stack = stk, !.threw = TRUE]
     ELSE LET parent == stk[Len(stk)].node
              node == Len(st.heap) + 1
          IN IF IsFolder(line)
             THEN [heap |-> Append([st.heap EXCEPT ![parent] =
                                      SetKey(@, name, "object", node)], <<>>),
                   stack |-> Append(stk, [depth |-> depth, node |-> node]),
                   threw |-> FALSE]
             ELSE [heap |-> [st.heap EXCEPT ![parent] =
                               SetKey(@, name, "null", 0)],
                   stack |-> stk,
                   threw |-> FALSE]

\* One iteration of inputLines.forEach on the parser state
\* st = [heap, stack, threw]; threw is the TypeError of reading .node of an
\* empty stack.
ParseLine(st, line) ==
  IF st.threw \/ IsBlank(line) THEN st
  ELSE LET depth == GetDepth(line)
           name == NameOf(line)
           stk == PopFrames(st.stack, depth)
       IN IF Len(stk) = 0 THEN [st EXCEPT !.stack = stk, !.threw = TRUE]
          ELSE LET parent == stk[Len(stk)].node
                   node == Len(st.heap) + 1
               IN IF IsFolder(line)
                  THEN [heap |-> Append([st.heap EXCEPT ![parent] =
                                     SetKey(@, name, "object", node)], <<>>),
                        stack |-> Append(stk, [depth |-> depth, node |-> node]),
                        threw |-> FALSE]
                  ELSE [heap |-> [st.heap EXCEPT ![parent] =
                                    SetKey(@, name, "null", 0)],
                        stack |-> stk,
                        threw |-> FALSE]

\* parseTree as a function of its argument: the fold of the iterations.
RECURSIVE ParseFrom(_, _, _)
ParseFrom(st, ls, i) ==
  IF i > Len(ls) THEN st ELSE ParseFrom(ParseLine(st, ls[i]), ls, i + 1)

ParseTree(ls) ==
  ParseFrom([heap |-> InitHeap, stack |-> InitStack, threw |-> FALSE], ls, 1)


\* ------------------------------------------------------ path.join (POSIX)
\* A path is the sequence of its segments from the filesystem root; a
\* segment is a sequence of characters.
RECURSIVE SplitFrom(_, _, _)
SplitFrom(key, i, cur) ==
  IF i > Len(key) THEN <<cur>>
  ELSE IF key[i] = "/" THEN <<cur>> \o SplitFrom(key, i + 1, <<>>)
  ELSE SplitFrom(key, i + 1, Append(cur, key[i]))

SplitSegments(key) == SplitFrom(key, 1, <<>>)

\* path.normalize of an absolute path: empty and "." segments vanish, ".."
\* removes the segment before it (and is dropped at the root).
RECURSIVE Normalize(_, _)
Normalize(acc, segs) ==
  IF segs = <<>> THEN acc
  ELSE LET seg == Head(segs)
       IN IF seg = <<>> \/ seg = <<".">> THEN Normalize(acc, Tail(segs))
          ELSE IF seg = <<".", ".">>
          THEN Normalize(IF acc = <<>> THEN acc
                         ELSE SubSeq(acc, 1, Len(acc) - 1), Tail(segs))
          ELSE Normalize(Append(acc, seg), Tail(segs))

PathJoin(base, key) == Normalize(base, SplitSegments(key))

\* ------------------------------------------------------------ file system
\* fs is the set of the entries on disk, [path, kind, content]; the content
\* of a placeholder file is the key its comment embeds.
Cwd == << <<"cwd">> >>
Exists(disk, p) == \E e \in disk : e.path = p
IsDir(disk, p) == \E e \in disk : e.path = p /\ e.kind = "dir"
IsFile(disk, p) == \E e \in disk : e.path = p /\ e.kind = "file"
ParentPath(p) == SubSeq(p, 1, Len(p) - 1)
Prefix(p, n) == SubSeq(p, 1, n)
DirEntry(p) == [path |-> p, kind |-> "dir", content |-> <<>>]
FileEntry(p, c) == [path |-> p, kind |-> "file", content |-> c]

BaseDisk == {DirEntry(<<>>), DirEntry(Cwd)}

\* fs.writeFileSync(p, data): the directory of p must exist and p must not
\* be a directory.
CanWrite(disk, p) == Len(p) > 0 /\ IsDir(disk, ParentPath(p)) /\ ~IsDir(disk, p)
WriteFile(disk, p, c) == {e \in disk : e.path # p} \cup {FileEntry(p, c)}

\* fs.mkdirSync(p, {recursive: true}): no component of p may be a file; the
\* missing components are created.  MkdirUpTo creates those of length <= n
\* (a failing call may have created some of them already).
CanMkdir(disk, p) == \A n \in 0..Len(p) : ~IsFile(disk, Prefix(p, n))
\* a mkdir that creates nothing
MkdirUpToNothing(disk, p, n) == disk

MkdirUpTo(disk, p, n) ==
  disk \cup {DirEntry(Prefix(p, m)) : m \in {k \in 0..n : ~Exists(disk, Prefix(p, k))}}
\* fs.mkdirSync(p): not recursive, p must be new and its directory exist.
CanMkdirPlain(disk, p) == Len(p) > 0 /\ ~Exists(disk, p) /\ IsDir(disk, ParentPath(p))


\* ------------------------------------------------------------------ inputs
Sp(k) == [i \in 1..k |-> " "]
\* the lead `tree` prints: "VB" columns, then "TEE HB HB" before the name
GlyphLead(k) ==
  [i \in 1..k |->
     IF i > 4 * ((k - 1) \div 4)
     THEN (IF i % 4 = 1 THEN "TEE" ELSE IF i % 4 = 0 THEN " " ELSE "HB")
     ELSE (IF i % 4 = 1 THEN "VB" ELSE " ")]
\* spaces with a tab as third character
TabLead(k) == [i \in 1..k |-> IF i = 3 THEN "TAB" ELSE " "]
ElbowLead == <<"ELB", "HB", "HB", " ">>

CoreLines ==
  { <<"a", "/">>, <<"a">>, Sp(4) \o <<"a", "/">>, Sp(4) \o <<"b">>,
    Sp(8) \o <<"b", "/">>, <<".", ".", "/", "b">>, <<"a", "/", "b">>,
    <<"TEE", "HB", "HB">>, <<"/">>, GlyphLead(4) \o <<"b">>,
    <<"a", "/", "b", "/">>, <<>> }

SeqsUpTo(S, n) == UNION {[1..m -> S] : m \in 0..n}

DepthLines ==
  { lead \o body :
      lead \in UNION {{Sp(k), GlyphLead(k), TabLead(k)} : k \in 0..MaxLead},
      body \in {<<"a">>, <<"b", "/">>} }

SpecExample ==
  << <<"lib", "/">>, Sp(4) \o <<"a">>, Sp(4) \o <<"core", "/">>,
     Sp(8) \o <<"b">> >>
FiveSiblings == << <<"a">>, <<"b">>, <<"a", "a">>, <<"a", "b">>, <<"b", "a">> >>
GlyphTree ==
  << <<"a", "/">>, GlyphLead(4) \o <<"b", "/">>, GlyphLead(8) \o <<"a">>,
     ElbowLead \o <<"p">> >>
Ragged ==
  << Sp(2) \o <<"a", "/">>, Sp(11) \o <<"b", "/">>, Sp(12) \o <<"a">>,
     Sp(5) \o <<"a", "/">>, <<"/">>, <<" ", "TAB">>, <<"b", "/", "/">>,
     TabLead(9) \o <<"b">> >>
DotNames ==
  << <<"a">>, <<".", "/", "a">>, <<".", ".", "/">>, Sp(4) \o <<"b">> >>
Nested ==
  << <<"a", "/">>, Sp(4) \o <<"a", "/">>, Sp(8) \o <<"b">>,
     Sp(4) \o <<"b", "/">>, <<"p">> >>
Samples == {SpecExample, FiveSiblings, GlyphTree, Ragged, DotNames, Nested}
RaggedPrefixes == {SubSeq(Ragged, 1, n) : n \in 1..Len(Ragged)}

ParseInputs ==
  SeqsUpTo(CoreLines, MaxLines) \cup {<<l>> : l \in DepthLines}
    \cup Samples \cup RaggedPrefixes
StdinInputs == SeqsUpTo(CoreLines, MaxLines) \cup Samples

\* ------------------------------------------------- isValidProjectName etc.
ProjectNameChars == {"a", "b", "p", "-", "_"}
IsValidProjectName(name) ==
  Len(name) > 0 /\ \A i \in 1..Len(name) : name[i] \in ProjectNameChars
TargetDir == PathJoin(Cwd, projectName)
ProjectNames == {<<"p">>, <<"p", ".">>}

\* the literal hierarchy of the --flutter branch, as a heap
FlutterStructure(v) ==
  LET file(n) == [name |-> <<n>>, kind |-> "null", ref |-> 0]
      dir(n, r) == [name |-> <<n>>, kind |-> "object", ref |-> r]
  IN IF v = 1
     THEN << <<dir("lib", 2)>>,
             <<dir("core", 3), file("main.dart")>>,
             <<file("themes.dart"), file("utils.dart")>> >>
     ELSE << <<dir("lib", 2)>>,
             <<dir("core", 3), dir("models", 4), dir("providers", 5),
               dir("services", 6), file("main.dart")>>,
             <<file("themes.dart"), file("utils.dart")>>,
             <<file("user_model.dart"), file("data_model.dart")>>,
             <<file("theme_provider.dart"), file("data_provider.dart"),
               file("user_provider.dart")>>,
             <<file("api_service.dart"), file("storage_service.dart"),
               file("notification_service.dart")>> >>


\* ------------------------------------------------------- the materializer
\* walk is the call stack of createCustomWithContent /
\* createFromStructureWithContent: a frame is [base, node, i], i the
\* position of the for-in loop.  A frame whose loop is over returns.
RECURSIVE Unwind(_, _)
Unwind(hp, w) ==
  IF Len(w) > 0 /\ w[Len(w)].i > Len(hp[w[Len(w)].node])
  THEN Unwind(hp, SubSeq(w, 1, Len(w) - 1)) ELSE w

Advance(w) == [w EXCEPT ![Len(w)].i = @ + 1]

\* the call put off until the calls in progress have returned
RecurseLater(w, fullPath, node) ==
  << [base |-> fullPath, node |-> node, i |-> 1] >> \o Advance(w)

\* the recursive call createCustomWithContent(fullPath, value), made inside
\* the iteration of the loop, which goes on after it returns
Recurse(w, fullPath, node) ==
  Append(Advance(w), [base |-> fullPath, node |-> node, i |-> 1])

CallWalk(hp, base) == Unwind(hp, << [base |-> base, node |-> Root, i |-> 1] >>)

\* ------------------------------------------------------------ the command
\* pc: "start" -> "dispatch" -> "read" -> "parse" -> "walk" -> "returned"
\* -> "exit0"; "threw" is an exception on its way out of the action,
\* "crashed" the process ended by it, "exit1" process.exit(1).
InvalidName ==
  /\ pc = "start"
  /\ ~IsValidProjectName(projectName)
  /\ out' = Append(out, "invalid project name")
  /\ pc' = "exit1"
  /\ UNCHANGED <<version, opt, projectName, stdin, rd, lines, idx, heap,
                 stack, ins, walk, fs, attempts>>

FolderExists ==
  /\ pc = "start"
  /\ IsValidProjectName(projectName)
  /\ Exists(fs, TargetDir)
  /\ out' = Append(out, "folder already exists")
  /\ pc' = "exit1"
  /\ UNCHANGED <<version, opt, projectName, stdin, rd, lines, idx, heap,
                 stack, ins, walk, fs, attempts>>

\* fs.mkdirSync(targetDir)
MakeTarget ==
  /\ pc = "start"
  /\ IsValidProjectName(projectName)
  /\ ~Exists(fs, TargetDir)
  /\ \E ok \in BOOLEAN :
       IF ok /\ CanMkdirPlain(fs, TargetDir)
       THEN /\ fs' = fs \cup {DirEntry(TargetDir)}
            /\ pc' = "dispatch"
       ELSE /\ fs' = fs
            /\ pc' = "threw"
  /\ UNCHANGED <<version, opt, projectName, stdin, rd, lines, idx, heap,
                 stack, ins, walk, attempts, out>>

FlutterBranch ==
  /\ pc = "dispatch"
  /\ "flutter" \in opt
  /\ heap' = FlutterStructure(version)
  /\ walk' = CallWalk(heap', TargetDir)
  /\ pc' = IF walk' = <<>> THEN "returned" ELSE "walk"
  /\ UNCHANGED <<version, opt, projectName, stdin, rd, lines, idx, stack,
                 ins, fs, attempts, out>>

\* options.custom (second version); the first version tests
\* options.fromStructure, which no declared option sets.
TakesCustom == IF version = 1 THEN FALSE ELSE "custom" \in opt

CustomBranch ==
  /\ pc = "dispatch"
  /\ "flutter" \notin opt
  /\ TakesCustom
  /\ out' = Append(out, "paste your directory structure")
  /\ pc' = "read"
  /\ UNCHANGED <<version, opt, projectName, stdin, rd, lines, idx, heap,
                 stack, ins, walk, fs, attempts>>

NoOptionBranch ==
  /\ pc = "dispatch"
  /\ "flutter" \notin opt
  /\ ~TakesCustom
  /\ out' = Append(out, "no project type option")
  /\ pc' = IF version = 1 THEN "exit1" ELSE "exit0"
  /\ UNCHANGED <<version, opt, projectName, stdin, rd, lines, idx, heap,
                 stack, ins, walk, fs, attempts>>

\* for await (const line of rl) { if (!line.trim()) break; lines.push(line) }
\* then rl.close() and the call of parseTree(lines)
ReadLine ==
  /\ pc = "read"
  /\ IF rd <= Len(stdin) /\ ~IsBlank(stdin[rd])
     THEN /\ lines' = Append(lines, stdin[rd])
          /\ rd' = rd + 1
          /\ pc' = "read"
     ELSE /\ lines' = lines
          /\ rd' = rd
          /\ pc' = "parse"
  /\ UNCHANGED <<version, opt, projectName, stdin, idx, heap, stack, ins,
                 walk, fs, attempts, out>>

\* one iteration of inputLines.forEach
ParseStep ==
  /\ pc = "parse"
  /\ idx <= Len(lines)
  /\ LET line == lines[idx]
         st == ParseLine([heap |-> heap, stack |-> stack, threw |-> FALSE],
                         line)
     IN /\ heap' = st.heap
        /\ stack' = st.stack
        /\ idx' = idx + 1
        /\ pc' = IF st.threw THEN "threw" ELSE "parse"
        \* ins records, for each line that inserted a node, where it went
        /\ ins' = IF st.threw \/ (st.heap = heap /\ st.stack = stack /\ IsBlank(line))
                  THEN ins
                  ELSE LET made == Len(st.heap) > Len(heap)
                           top == Len(st.stack)
                       IN Append(ins,
                            [line |-> idx,
                             depth |-> GetDepth(line),
                             name |-> NameOf(line),
                             folder |-> made,
                             node |-> IF made THEN Len(st.heap) ELSE 0,
                             parent |-> IF made THEN st.stack[top - 1].node
                                        ELSE st.stack[top].node])
  /\ UNCHANGED <<version, opt, projectName, stdin, rd, lines, walk, fs,
                 attempts, out>>

\* return root; then the call of the materializer on it
ParseReturn ==
  /\ pc = "parse"
  /\ idx > Len(lines)
  /\ walk' = CallWalk(heap, TargetDir)
  /\ pc' = IF walk' = <<>> THEN "returned" ELSE "walk"
  /\ UNCHANGED <<version, opt, projectName, stdin, rd, lines, idx, heap,
                 stack, ins, fs, attempts, out>>


\* WalkStep with every failing creation caught and the loop going on
WalkStepSwallow ==
  /\ pc = "walk"
  /\ LET top == walk[Len(walk)]
         e == heap[top.node][top.i]
         fullPath == PathJoin(top.base, e.name)
         try(ok) == [path |-> fullPath, key |-> e.name, base |-> top.base,
                     node |-> top.node, ref |-> e.ref,
                     kind |-> IF e.kind = "object" THEN "dir" ELSE "file",
                     ok |-> ok]
     IN IF e.kind = "null"
        THEN \E ok \in BOOLEAN, left \in BOOLEAN :
               IF ok /\ CanWrite(fs, fullPath)
               THEN /\ fs' = WriteFile(fs, fullPath, e.name)
                    /\ attempts' = Append(attempts, try(TRUE))
                    /\ walk' = Unwind(heap, Advance(walk))
                    /\ pc' = IF walk' = <<>> THEN "returned" ELSE "walk"
               ELSE /\ fs' = IF left /\ CanWrite(fs, fullPath)
                             THEN WriteFile(fs, fullPath, <<>>) ELSE fs
                    /\ attempts' = Append(attempts, try(FALSE))
                    /\ walk' = Unwind(heap, Advance(walk))
                    /\ pc' = IF walk' = <<>> THEN "returned" ELSE "walk"
        ELSE \E ok \in BOOLEAN, n \in 0..Len(fullPath) :
               IF ok /\ CanMkdir(fs, fullPath)
               THEN /\ fs' = MkdirUpTo(fs, fullPath, Len(fullPath))
                    /\ attempts' = Append(attempts, try(TRUE))
                    /\ walk' = Unwind(heap,
                         Recurse(walk, fullPath, e.ref))
                    /\ pc' = IF walk' = <<>> THEN "returned" ELSE "walk"
               ELSE /\ n < Len(fullPath)
                    /\ CanMkdir(fs, Prefix(fullPath, n))
                    /\ fs' = MkdirUpTo(fs, fullPath, n)
                    /\ attempts' = Append(attempts, try(FALSE))
                    /\ walk' = Unwind(heap, Advance(walk))
                    /\ pc' = IF walk' = <<>> THEN "returned" ELSE "walk"
  /\ UNCHANGED <<version, opt, projectName, stdin, rd, lines, idx, heap,
                 stack, ins, out>>

\* one iteration of the for-in loop of the innermost call; a failing
\* creation throws out of every call (there is no try/catch).  A creation
\* fails when the file system refuses it, or for a cause outside the model
\* (permission, disk full: ok = FALSE); a failing write may leave the file
\* behind empty, a failing recursive mkdir some of the missing components.
\* No hierarchy of parseTree or of the flutter branch holds a string value:
\* every value is null or an object.
WalkStep ==
  /\ pc = "walk"
  /\ LET top == walk[Len(walk)]
         e == heap[top.node][top.i]
         fullPath == PathJoin(top.base, e.name)
         try(ok) == [path |-> fullPath, key |-> e.name, base |-> top.base,
                     node |-> top.node, ref |-> e.ref,
                     kind |-> IF e.kind = "object" THEN "dir" ELSE "file",
                     ok |-> ok]
     IN IF e.kind = "null"
        THEN \E ok \in BOOLEAN, left \in BOOLEAN :
               IF ok /\ CanWrite(fs, fullPath)
               THEN /\ fs' = WriteFile(fs, fullPath, e.name)
                    /\ attempts' = Append(attempts, try(TRUE))
                    /\ walk' = Unwind(heap, Advance(walk))
                    /\ pc' = IF walk' = <<>> THEN "returned" ELSE "walk"
               ELSE /\ fs' = IF left /\ CanWrite(fs, fullPath)
                             THEN WriteFile(fs, fullPath, <<>>) ELSE fs
                    /\ attempts' = Append(attempts, try(FALSE))
                    /\ walk' = walk
                    /\ pc' = "threw"
        ELSE \E ok \in BOOLEAN, n \in 0..Len(fullPath) :
               IF ok /\ CanMkdir(fs, fullPath)
               THEN /\ fs' = MkdirUpTo(fs, fullPath, Len(fullPath))
                    /\ attempts' = Append(attempts, try(TRUE))
                    /\ walk' = Unwind(heap,
                         Recurse(walk, fullPath, e.ref))
                    /\ pc' = IF walk' = <<>> THEN "returned" ELSE "walk"
               ELSE /\ n < Len(fullPath)
                    /\ CanMkdir(fs, Prefix(fullPath, n))
                    /\ fs' = MkdirUpTo(fs, fullPath, n)
                    /\ attempts' = Append(attempts, try(FALSE))
                    /\ walk' = walk
                    /\ pc' = "threw"
  /\ UNCHANGED <<version, opt, projectName, stdin, rd, lines, idx, heap,
                 stack, ins, out>>

\* console.log of the success message, after the materializer returned
PrintSuccess ==
  /\ pc = "returned"
  /\ out' = Append(out, "created")
  /\ pc' = "exit0"
  /\ UNCHANGED <<version, opt, projectName, stdin, rd, lines, idx, heap,
                 stack, ins, walk, fs, attempts>>

\* the exception caught and the success message printed all the same
UncaughtThenSuccess ==
  /\ pc = "threw"
  /\ out' = Append(out, "created")
  /\ pc' = "exit0"
  /\ UNCHANGED <<version, opt, projectName, stdin, rd, lines, idx, heap,
                 stack, ins, walk, fs, attempts>>

\* no try/catch in the async action: the rejection ends the process with
\* the error printed
Uncaught ==
  /\ pc = "threw"
  /\ out' = Append(out, "uncaught error")
  /\ pc' = "crashed"
  /\ UNCHANGED <<version, opt, projectName, stdin, rd, lines, idx, heap,
                 stack, ins, walk, fs, attempts>>

\* ---------------------------------------------------------- specifications
InitCommon ==
  /\ rd = 1
  /\ lines = <<>>
  /\ idx = 1
  /\ heap = InitHeap
  /\ stack = InitStack
  /\ ins = <<>>
  /\ walk = <<>>
  /\ attempts = <<>>
  /\ out = <<>>

\* the command, run in a working directory that may hold the folder already
Init ==
  /\ version \in {1, 2}
  /\ opt \in SUBSET {"flutter", "custom"}
  /\ projectName \in ProjectNames
  /\ fs \in {BaseDisk, BaseDisk \cup {DirEntry(TargetDir)}}
  /\ stdin \in IF version = 2 /\ opt = {"custom"} /\ fs = BaseDisk
                  /\ IsValidProjectName(projectName)
               THEN StdinInputs ELSE {<<>>}
  /\ pc = "start"
  /\ InitCommon

Next ==
  \/ InvalidName
  \/ FolderExists
  \/ MakeTarget
  \/ FlutterBranch
  \/ CustomBranch
  \/ NoOptionBranch
  \/ ReadLine
  \/ ParseStep
  \/ ParseReturn
  \/ WalkStep
  \/ PrintSuccess
  \/ Uncaught

Spec == Init /\ [][Next]_vars

\* parseTree and the materializer called on any sequence of lines, into a
\* new, empty target directory
InitParse ==
  /\ version = 2
  /\ opt = {"custom"}
  /\ projectName = <<"p">>
  /\ fs = BaseDisk \cup {DirEntry(TargetDir)}
  /\ stdin = <<>>
  /\ rd = 1
  /\ lines \in ParseInputs
  /\ pc = "parse"
  /\ idx = 1
  /\ heap = InitHeap
  /\ stack = InitStack
  /\ ins = <<>>
  /\ walk = <<>>
  /\ attempts = <<>>
  /\ out = <<>>

NextParse ==
  \/ ParseStep
  \/ ParseReturn
  \/ WalkStep

SpecParse == InitParse /\ [][NextParse]_vars


\* ------------------------------------------------- vocabulary of the claims
IndentGlyphs == {" ", "VB", "TEE", "ELB", "HB"}
\* k: the number of consecutive leading characters from the glyph set
LeadCount(line) ==
  CHOOSE k \in 0..Len(line) :
    /\ \A i \in 1..k : line[i] \in IndentGlyphs
    /\ k = Len(line) \/ line[k + 1] \notin IndentGlyphs
OnlyWhitespace(line) == \A i \in 1..Len(line) : line[i] \in {" ", "TAB"}
SetMax(S) == CHOOSE x \in S : \A y \in S : y <= x
Recs == {ins[i] : i \in 1..Len(ins)}
\* the line that made node n (0 for the root)
NodeLine(n) ==
  IF n = Root THEN 0 ELSE (CHOOSE r \in Recs : r.node = n).line
LastRec == ins[Len(ins)]
Entry(n, name) == heap[n][KeyIndex(heap[n], name)]

\* the nearest preceding directory line that is still open (no later line
\* at its depth or shallower) and strictly shallower than line i
OpenAncestors(ls, i) ==
  {j \in 1..(i - 1) :
     /\ ~OnlyWhitespace(ls[j])
     /\ IsFolder(ls[j])
     /\ GetDepth(ls[j]) < GetDepth(ls[i])
     /\ \A k \in (j + 1)..(i - 1) :
          OnlyWhitespace(ls[k]) \/ GetDepth(ls[k]) > GetDepth(ls[j])}
ExpectedParentLine(ls, i) ==
  IF OpenAncestors(ls, i) = {} THEN 0 ELSE SetMax(OpenAncestors(ls, i))

\* C1: every non-blank line's node goes into the directory of the nearest
\* preceding open directory line of strictly smaller depth, or into the
\* root; the frames left under it are all strictly shallower.
C1_AttachToNearestOpenAncestor ==
  /\ {r.line : r \in Recs} =
       {i \in 1..(idx - 1) : i <= Len(lines) /\ ~OnlyWhitespace(lines[i])}
  /\ \A r \in Recs : NodeLine(r.parent) = ExpectedParentLine(lines, r.line)
  /\ (pc = "parse" /\ ins # <<>>) =>
       /\ HasKey(heap[LastRec.parent], LastRec.name)
       /\ Entry(LastRec.parent, LastRec.name).ref = LastRec.node
       /\ stack[Len(stack)].node =
            (IF LastRec.folder THEN LastRec.node ELSE LastRec.parent)
       /\ \A f \in 1..Len(stack) :
            stack[f].node # LastRec.node => stack[f].depth < LastRec.depth

C1_Witness ==
  /\ \E r \in Recs : \E q \in Recs :
       r.parent = q.node /\ r.depth > q.depth + 1
  /\ \E r \in Recs : \E q \in Recs :
       r.line > q.line /\ r.depth < q.depth /\ r.parent # Root
  /\ \E r \in Recs : \E q \in Recs :
       r.line > q.line /\ r.depth = q.depth /\ r.parent = q.parent /\ q.folder


\* the records of the lines that wrote the same key of the same directory
SameKey(r) == {q \in Recs : q.parent = r.parent /\ q.name = r.name}
Referenced(n) ==
  \E m \in 1..Len(heap) : \E i \in 1..Len(heap[m]) : heap[m][i].ref = n

\* C2: two lines of the same name in the same directory leave exactly one
\* entry for the name, that of the last one; a folder written over is
\* detached with its children, and the new folder starts without them.
C2_LastDuplicateWins ==
  /\ \A n \in 1..Len(heap) : \A i, j \in 1..Len(heap[n]) :
       heap[n][i].name = heap[n][j].name => i = j
  /\ \A r \in Recs :
       LET last == CHOOSE q \in SameKey(r) :
                     \A o \in SameKey(r) : o.line <= q.line
       IN /\ HasKey(heap[r.parent], r.name)
          /\ Entry(r.parent, r.name).kind =
               (IF last.folder THEN "object" ELSE "null")
          /\ Entry(r.parent, r.name).ref = last.node
          /\ (r.folder /\ r # last) => ~Referenced(r.node)
          /\ r.folder =>
               \A i \in 1..Len(heap[r.node]) :
                 \E c \in Recs : c.parent = r.node /\ c.line > r.line
                                 /\ c.name = heap[r.node][i].name

C2_Witness ==
  \E r \in Recs : \E q \in Recs : \E c \in Recs :
    /\ r.folder /\ q.folder /\ r.line < q.line
    /\ q \in SameKey(r)
    /\ c.parent = r.node
    /\ heap[q.node] = <<>>
    /\ pc = "returned"

\* C3: the depth of a line is floor(k / 4), k its count of leading
\* indentation glyphs up to the first other character; 8 and 11 give 2,
\* 12 gives 3.
C3_DepthIsFloorQuarter ==
  \A r \in Recs :
    LET k == LeadCount(lines[r.line])
    IN /\ r.depth = k \div 4
       /\ 4 * r.depth <= k /\ k < 4 * r.depth + 4
       /\ k \in {8, 11} => r.depth = 2
       /\ k = 12 => r.depth = 3

C3_Witness ==
  /\ \E r \in Recs : LeadCount(lines[r.line]) = 11 /\ r.depth = 2
  /\ \E r \in Recs : LeadCount(lines[r.line]) = 12 /\ r.depth = 3
  /\ \E r \in Recs : LeadCount(lines[r.line]) = 5 /\ r.depth = 1
  /\ \E r \in Recs : /\ LeadCount(lines[r.line]) = 2
                      /\ lines[r.line][3] = "TAB"
                      /\ Len(lines[r.line]) > 8
                      /\ r.depth = 0

\* the parser threw: an exception before any creation was attempted
ParserThrew == pc = "threw" /\ attempts = <<>>
\* C4: parseTree never throws; the root frame of depth -1 stays at the
\* bottom of the stack, and when it returns every line has been processed.
C4_ParserNeverFails ==
  /\ ~ParserThrew
  /\ Len(stack) >= 1
  /\ stack[1] = [depth |-> -1, node |-> Root]
  /\ pc # "parse" =>
       /\ idx = Len(lines) + 1
       /\ {r.line : r \in Recs} =
            {i \in 1..Len(lines) : ~OnlyWhitespace(lines[i])}

C4_Witness ==
  /\ pc = "returned"
  /\ Len(lines) >= 3
  /\ GetDepth(lines[1]) = 0
  /\ GetDepth(lines[2]) = 2
  /\ \E r \in Recs : r.line = 2 /\ r.parent # Root


\* the entries of a hierarchy in depth-first pre-order, each with the
\* directory it is created in
RECURSIVE PreorderFrom(_, _, _, _)
PreorderFrom(hp, n, base, i) ==
  IF i > Len(hp[n]) THEN <<>>
  ELSE LET e == hp[n][i]
           here == [path |-> PathJoin(base, e.name), key |-> e.name,
                    base |-> base,
                    kind |-> IF e.kind = "object" THEN "dir" ELSE "file"]
       IN <<here>>
          \o (IF e.kind = "object" THEN PreorderFrom(hp, e.ref, here.path, 1)
              ELSE <<>>)
          \o PreorderFrom(hp, n, base, i + 1)
Preorder == PreorderFrom(heap, Root, TargetDir, 1)
Tried(i) == [path |-> attempts[i].path, key |-> attempts[i].key,
             base |-> attempts[i].base, kind |-> attempts[i].kind]
OnDisk(p, kind) == \E e \in fs : e.path = p /\ e.kind = kind
Failed == \E i \in 1..Len(attempts) : ~attempts[i].ok

\* C5: the creations attempted are a prefix of the depth-first order that
\* ends at the first failure; the failure ends the walk, and what was
\* created before it stays on disk.
C5_FirstFailureAborts ==
  attempts # <<>> =>
    /\ Len(attempts) <= Len(Preorder)
    /\ \A i \in 1..Len(attempts) :
         /\ Tried(i) = Preorder[i]
         /\ i < Len(attempts) => attempts[i].ok
         /\ attempts[i].ok => OnDisk(attempts[i].path, attempts[i].kind)
    /\ Failed <=> pc \in {"threw", "crashed"}
    /\ Failed => walk # <<>>

C5_Witness ==
  /\ pc = "threw"
  /\ Len(heap[Root]) = 5
  /\ \A i \in 1..5 : heap[Root][i].kind = "null"
  /\ Len(attempts) = 3
  /\ ~attempts[3].ok
  /\ \A i \in 1..5 : Exists(fs, Preorder[i].path) <=> i < 3


\* A well-formed line: a lead of 4 * d indentation glyphs, a plain name,
\* "/" after it for a folder.
Rest(l) == SubSeq(l, LeadCount(l) + 1, Len(l))
FolderLine(l) == Len(Rest(l)) > 0 /\ Rest(l)[Len(Rest(l))] = "/"
PlainName(l) ==
  IF FolderLine(l) THEN SubSeq(Rest(l), 1, Len(Rest(l)) - 1) ELSE Rest(l)
Level(l) == LeadCount(l) \div 4
WellFormedLine(l) ==
  /\ LeadCount(l) % 4 = 0
  /\ Len(PlainName(l)) > 0
  /\ \A i \in 1..Len(PlainName(l)) : PlainName(l)[i] \in NameChars
\* the path the input gives line i, below the target directory: its name
\* under the path of the nearest preceding line one level up
RECURSIVE IntendedPath(_, _)
IntendedPath(ls, i) ==
  IF Level(ls[i]) = 0 THEN <<PlainName(ls[i])>>
  ELSE Append(IntendedPath(ls,
                SetMax({j \in 1..(i - 1) : Level(ls[j]) = Level(ls[i]) - 1})),
              PlainName(ls[i]))
WellFormed(ls) ==
  /\ \A i \in 1..Len(ls) :
       /\ WellFormedLine(ls[i])
       /\ Level(ls[i]) <= (IF i = 1 THEN 0 ELSE Level(ls[i - 1]) + 1)
       /\ (i > 1 /\ Level(ls[i]) = Level(ls[i - 1]) + 1) => FolderLine(ls[i - 1])
  /\ \A i, j \in 1..Len(ls) :
       IntendedPath(ls, i) = IntendedPath(ls, j) => i = j
StartDisk == BaseDisk \cup {DirEntry(TargetDir)}
Created == {[path |-> e.path, kind |-> e.kind] : e \in fs \ StartDisk}

\* C6: for a well-formed input, parsing and a failure-free materialization
\* into the empty target create exactly the folders and files the input
\* names, nested as in the input.
C6_RoundTrip ==
  (pc = "returned" /\ WellFormed(lines)) =>
    Created = {[path |-> TargetDir \o IntendedPath(lines, i),
                kind |-> IF FolderLine(lines[i]) THEN "dir" ELSE "file"] :
               i \in 1..Len(lines)}

C6_Witness ==
  /\ pc = "returned"
  /\ WellFormed(lines)
  /\ Len(lines) >= 4
  /\ \E i \in 1..Len(lines) : Level(lines[i]) = 2
  /\ \E i \in 1..Len(lines) : "TEE" \in {lines[i][k] : k \in 1..Len(lines[i])}

\* C7 as stated: every key of every directory is non-empty and free of the
\* path separator; a clean name ending in the separator gives a directory
\* under the name without it, any other an empty file under the clean name.
C7_NamesValid ==
  /\ \A n \in 1..Len(heap) : \A i \in 1..Len(heap[n]) :
       /\ heap[n][i].name # <<>>
       /\ \A k \in 1..Len(heap[n][i].name) : heap[n][i].name[k] # "/"
  /\ \A r \in Recs :
       LET clean == Clean(Trim(lines[r.line]))
       IN IF Len(clean) > 0 /\ clean[Len(clean)] = "/"
          THEN r.folder /\ r.name = SubSeq(clean, 1, Len(clean) - 1)
          ELSE ~r.folder /\ r.name = clean

\* the part of C7 that the code keeps: folder detection
C7_FolderDetection ==
  \A r \in Recs :
    LET clean == Clean(Trim(lines[r.line]))
    IN IF Len(clean) > 0 /\ clean[Len(clean)] = "/"
       THEN r.folder /\ r.name = SubSeq(clean, 1, Len(clean) - 1)
       ELSE ~r.folder /\ r.name = clean

IsStrictPrefix(p, q) == Len(p) < Len(q) /\ SubSeq(q, 1, Len(p)) = p
Escapes(key) ==
  \/ \E k \in 1..Len(key) : key[k] = "/"
  \/ key = <<".", ".">>

\* C8 as stated: a key with a separator or a parent reference is refused
\* and creates nothing; everything created lies strictly inside the target
\* directory and directly inside the directory of its parent node.
C8_StaysInsideBase ==
  /\ \A i \in 1..Len(attempts) :
       /\ Escapes(attempts[i].key) => ~attempts[i].ok
       /\ attempts[i].ok =>
            attempts[i].path = Append(attempts[i].base, attempts[i].key)
  /\ \A e \in fs \ StartDisk : IsStrictPrefix(TargetDir, e.path)


NotBlankLine(l) == ~OnlyWhitespace(l)
WithoutBlanks(ls) == SelectSeq(ls, NotBlankLine)

\* C9: an empty or whitespace-only line makes no node and leaves the stack
\* as it was: after any prefix of the input the heap and the stack are
\* those of parsing the prefix without its blank lines; an input without a
\* non-blank line gives the empty root and nothing is created.
C9_BlankLinesTransparent ==
  LET done == SubSeq(lines, 1, idx - 1)
      P == ParseTree(WithoutBlanks(done))
  IN /\ heap = P.heap
     /\ stack = P.stack
     /\ \A r \in Recs : ~OnlyWhitespace(lines[r.line])
     /\ (pc # "parse" /\ WithoutBlanks(lines) = <<>>) =>
          /\ heap = << <<>> >>
          /\ pc = "returned"
          /\ attempts = <<>>
          /\ fs = StartDisk

C9_Witness ==
  /\ pc # "parse"
  /\ Len(heap) > 2
  /\ \E i, j, k \in 1..Len(lines) :
       /\ i < j /\ j < k
       /\ ~OnlyWhitespace(lines[i]) /\ ~OnlyWhitespace(lines[k])
       /\ OnlyWhitespace(lines[j]) /\ Len(lines[j]) > 0

InOut(m) == \E i \in 1..Len(out) : out[i] = m

\* C10: the success message is printed only after the materializer has
\* returned normally, with every node of the hierarchy created; after a
\* failing creation the run ends on the uncaught error without it.
C10_NoSuccessOnPartialTree ==
  /\ InOut("created") =>
       /\ pc = "exit0"
       /\ walk = <<>>
       /\ ~Failed
       /\ Len(attempts) = Len(Preorder)
       /\ \A i \in 1..Len(Preorder) : OnDisk(Preorder[i].path, Preorder[i].kind)
  /\ Failed => ~InOut("created") /\ pc \in {"threw", "crashed"}
  /\ pc = "crashed" => out[Len(out)] = "uncaught error"

C10_Witness ==
  /\ pc = "crashed"
  /\ Failed
  /\ Len(attempts) >= 3
  /\ "flutter" \notin opt
  /\ ~InOut("created")


\* the lines of stdin before its first blank line
RECURSIVE UpToBlank(_)
UpToBlank(ls) ==
  IF ls = <<>> \/ OnlyWhitespace(Head(ls)) THEN <<>>
  ELSE <<Head(ls)>> \o UpToBlank(Tail(ls))

\* C11: run with a valid name, a target that does not exist yet and
\* --custom alone, the command never takes the branch of no project type
\* option; it creates the target, reads the pasted lines up to the first
\* blank line or the end of input, parses them and materializes the result.
C11_CustomReachesWorkflow ==
  (/\ IsValidProjectName(projectName)
   /\ opt = {"custom"}
   /\ ~InOut("folder already exists")) =>
     /\ ~InOut("no project type option")
     /\ pc # "exit1"
     /\ pc \in {"walk", "returned", "exit0"} =>
          /\ OnDisk(TargetDir, "dir")
          /\ lines = UpToBlank(stdin)
          /\ heap = ParseTree(lines).heap


\* the nodes of the subtree of node n, n included
RECURSIVE Subtree(_, _)
Subtree(hp, n) ==
  {n} \cup UNION {Subtree(hp, hp[n][i].ref) :
                    i \in {k \in 1..Len(hp[n]) : hp[n][k].kind = "object"}}
WalkOver == pc \in {"returned", "exit0"}
\* attempt j creates an entry below the directory that attempt i creates
Below(j, i) ==
  attempts[i].kind = "dir" /\ attempts[j].node \in Subtree(heap, attempts[i].ref)

\* C12: the walk is depth-first in pre-order: a creation inside a directory
\* is attempted only after the creation of that directory has succeeded,
\* the creations below a directory come in one run right after it and
\* before its next sibling, and a walk that returns has created every
\* Directory node, also one without children.
C12_DepthFirstPreOrder ==
  /\ \A j \in 1..Len(attempts) :
       attempts[j].node # Root =>
         \E i \in 1..(j - 1) :
           /\ attempts[i].kind = "dir" /\ attempts[i].ok
           /\ attempts[i].ref = attempts[j].node
           /\ attempts[i].path = attempts[j].base
  /\ \A i, j \in 1..Len(attempts) :
       (i < j /\ Below(j, i)) => \A m \in (i + 1)..j : Below(m, i)
  /\ \A i, k \in 1..Len(attempts) :
       (i < k /\ attempts[i].kind = "dir" /\ attempts[k].node = attempts[i].node)
         => \A n \in Subtree(heap, attempts[i].ref) :
              \A x \in 1..Len(heap[n]) :
                \E j \in (i + 1)..(k - 1) :
                  attempts[j].node = n /\ attempts[j].key = heap[n][x].name
  /\ WalkOver =>
       \A n \in Subtree(heap, Root) \ {Root} :
         \E i \in 1..Len(attempts) :
           /\ attempts[i].ref = n /\ attempts[i].ok
           /\ OnDisk(attempts[i].path, "dir")


C12_Witness ==
  /\ WalkOver
  /\ \E i, j, k \in 1..Len(attempts) :
       /\ i < j /\ j < k
       /\ Below(j, i)
       /\ attempts[k].node = attempts[i].node
       /\ attempts[k].kind = "dir"
       /\ heap[attempts[k].ref] = <<>>
       /\ OnDisk(attempts[k].path, "dir")


\* the entries, anywhere in the heap, that refer to node n
Referrers(n) ==
  UNION {{<<m, i>> : i \in {k \in 1..Len(heap[m]) :
                              heap[m][k].kind = "object" /\ heap[m][k].ref = n}} :
         m \in 1..Len(heap)}

\* C13: after any prefix of the input the stack has the root frame of depth
\* -1 at the bottom and strictly increasing depths, each frame's node is
\* the value now stored in the directory of the frame beneath it, so every
\* open frame is reachable from the root; a line is never inserted into a
\* detached directory, and every node has at most one parent, which was
\* allocated before it (a tree).
C13_ParseStackInvariant ==
  /\ stack # <<>>
  /\ stack[1] = [depth |-> -1, node |-> Root]
  /\ \A f \in 2..Len(stack) :
       /\ stack[f - 1].depth < stack[f].depth
       /\ \E i \in 1..Len(heap[stack[f - 1].node]) :
            /\ heap[stack[f - 1].node][i].kind = "object"
            /\ heap[stack[f - 1].node][i].ref = stack[f].node
       /\ stack[f].node \in Subtree(heap, Root)
  /\ (pc = "parse" /\ ins # <<>>) => LastRec.parent \in Subtree(heap, Root)
  /\ Referrers(Root) = {}
  /\ \A n \in 2..Len(heap) :
       /\ Cardinality(Referrers(n)) <= 1
       /\ n \in Subtree(heap, Root) => Cardinality(Referrers(n)) = 1
       /\ \A x \in Referrers(n) : x[1] < n

C13_Witness ==
  /\ Len(stack) >= 3
  /\ pc = "parse"
  /\ ins # <<>>
  /\ \E n \in 2..Len(heap) : Referrers(n) = {}

====
